---- MODULE Spec2Model ----
(***************************************************************************)
(* A model of rename_episodes.py: the batch renamer of TV episode files.   *)
(*                                                                         *)
(* A Python str is modelled as a sequence of one-character strings, so     *)
(* that the regular expressions, the trailing-character stripping and the  *)
(* number formatting are computed character by character, as the code      *)
(* computes them.                                                          *)
(***************************************************************************)
EXTENDS Integers, Sequences, FiniteSets, TLC

VARIABLES
    call,             \* SpecFn: the last call of a module-level function
    tree,             \* the regular files: canonical path -> content
    dirs,             \* the directories: a set of canonical paths
    listing,          \* os.listdir: canonical directory path -> names, in order
    args,             \* the parsed command line (argparse.Namespace)
    pc,               \* main's position
    seasons,          \* main's list of season dicts
    season_padding,   \* main's format spec for season numbers
    episode_padding,  \* main's format spec for episode numbers
    episode_counts,   \* main's list of per-season episode counts
    response,         \* the line read at the confirmation prompt
    log,              \* the os.rename calls issued so far, with their outcome
    error,            \* the exception that ended the run, or "none"
    tv_show           \* SpecShow: the constructed TVShow, or the error raised

vars == <<call, tree, dirs, listing, args, pc, seasons, season_padding,
          episode_padding, episode_counts, response, log, error, tv_show>>

fsVars == <<tree, dirs, listing>>
mainVars == <<args, pc, seasons, season_padding, episode_padding,
              episode_counts, response, log, error>>

(***************************************************************************)
(* Bounds of the model.                                                    *)
(***************************************************************************)
MaxLen == 5          \* the longest string handed to a string function
MaxDigits == 2       \* numbers up to 10^MaxDigits + 1 are formatted
MaxCounts == 2       \* the longest list handed to the padding computation
MaxEntries == 5      \* the directory entries of a show folder, all together

(***************************************************************************)
(* Python values.                                                          *)
(***************************************************************************)
Ok(v) == [ok |-> TRUE, value |-> v, error |-> "none"]
Raise(e) == [ok |-> FALSE, value |-> <<>>, error |-> e]

Min(S) == CHOOSE x \in S : \A y \in S : x <= y
Max(S) == CHOOSE x \in S : \A y \in S : y <= x

DigitChars == {"0", "1", "2", "3", "4", "5", "6", "7", "8", "9"}

DigitOrder == <<"0", "1", "2", "3", "4", "5", "6", "7", "8", "9">>

DigitVal(c) == (CHOOSE i \in 1..10 : DigitOrder[i] = c) - 1

DigitChar(d) == DigitOrder[d + 1]

\* str(n) of a non-negative int
RECURSIVE str(_)
str(n) == IF n < 10 THEN <<DigitChar(n)>>
          ELSE str(n \div 10) \o <<DigitChar(n % 10)>>

\* int(s) of a string of decimal digits
RECURSIVE int(_)
int(s) == IF Len(s) = 0 THEN 0
          ELSE int(SubSeq(s, 1, Len(s) - 1)) * 10 + DigitVal(s[Len(s)])

RECURSIVE Repeat(_, _)
Repeat(c, n) == IF n <= 0 THEN <<>> ELSE <<c>> \o Repeat(c, n - 1)

\* f"{n:{padding}}" for a non-negative int n and a format spec "0<width>":
\* zero fill to a minimum width, never a truncation
format_int_trunc(n, padding) ==
    LET width == int(Tail(padding))
        d == str(n)
    IN  IF Len(d) >= width THEN SubSeq(d, Len(d) - width + 1, Len(d))
        ELSE Repeat("0", width - Len(d)) \o d

format_int(n, padding) ==
    LET width == int(Tail(padding))
        d == str(n)
    IN  IF Len(d) >= width THEN d ELSE Repeat(padding[1], width - Len(d)) \o d

\* str.lower() on the letters the model reads at the prompt
LowerChar(c) ==
    CASE c = "Y" -> "y"
      [] c = "E" -> "e"
      [] c = "S" -> "s"
      [] c = "N" -> "n"
      [] c = "O" -> "o"
      [] OTHER -> c

lower(s) == [i \in 1..Len(s) |-> LowerChar(s[i])]

(***************************************************************************)
(* get_extension: re.search(r"\.(?P<ext>[^.]+)$", filename).  A match is a *)
(* '.' followed by one or more characters other than '.', up to the end of *)
(* the string; re.search returns the leftmost one.                         *)
(***************************************************************************)
get_extension_first_dot(filename) ==
    LET n == Len(filename)
        dots == {i \in 1..n : filename[i] = "." /\ i < n}
    IN  IF dots # {} THEN Ok(SubSeq(filename, Min(dots) + 1, n))
        ELSE Raise("ValueError")

get_extension(filename) ==
    LET n == Len(filename)
        matches == {i \in 1..n : /\ filename[i] = "."
                                 /\ i < n
                                 /\ \A j \in (i + 1)..n : filename[j] # "."}
    IN  IF matches # {} THEN Ok(SubSeq(filename, Min(matches) + 1, n))
        ELSE Raise("ValueError")

(***************************************************************************)
(* remove_end_chars: the recursion on text[-1]; text[-1] of an empty str   *)
(* raises IndexError.                                                      *)
(***************************************************************************)
RECURSIVE remove_end_chars(_, _)
remove_end_chars(text, char) ==
    IF Len(char) # 1 THEN Raise("ValueError")
    ELSE IF Len(text) = 0 THEN Raise("IndexError")
    ELSE IF text[Len(text)] = char[1]
         THEN remove_end_chars(SubSeq(text, 1, Len(text) - 1), char)
    ELSE Ok(text)

(***************************************************************************)
(* TVSeason.get_season_number, on the folder name.                         *)
(***************************************************************************)
\* re.findall(r"\d+", name): the maximal runs of digits, left to right
RECURSIVE findall_digits(_, _, _)
findall_digits(name, i, run) ==
    IF i > Len(name)
    THEN IF run = <<>> THEN <<>> ELSE <<run>>
    ELSE IF name[i] \in DigitChars
         THEN findall_digits(name, i + 1, Append(run, name[i]))
    ELSE (IF run = <<>> THEN <<>> ELSE <<run>>)
         \o findall_digits(name, i + 1, <<>>)

\* re.search(r"^\D*(?P<season>\d+)\D*$", name): the (first, last) index of
\* the group, or <<>> when the pattern does not match
search_season(name) ==
    LET n == Len(name)
        groups == {g \in (1..n) \X (1..n) :
                      /\ g[1] <= g[2]
                      /\ \A i \in 1..n :
                            (name[i] \in DigitChars) <=> (g[1] <= i /\ i <= g[2])}
    IN  IF groups = {} THEN <<>> ELSE CHOOSE g \in groups : TRUE

get_season_number_first(name) ==
    LET numbers_found == findall_digits(name, 1, <<>>)
    IN  IF Len(numbers_found) >= 1 THEN Ok(int(numbers_found[1]))
        ELSE Raise("NoNumbersFound")

get_season_number(name) ==
    LET match == search_season(name)
        numbers_found == findall_digits(name, 1, <<>>)
    IN  IF match # <<>> THEN Ok(int(SubSeq(name, match[1], match[2])))
        ELSE IF Len(numbers_found) > 1 THEN Raise("MultipleNumbersFound")
        ELSE Raise("NoNumbersFound")

(***************************************************************************)
(* Paths.  The program builds paths as strings (f"{a}/{b}", os.path.join)  *)
(* and the operating system resolves them: relative to the working         *)
(* directory, empty components and a trailing '/' ignored.                 *)
(***************************************************************************)
Cwd == <<"/", "w">>

\* f"{a}/{b}"
fjoin(a, b) == a \o <<"/">> \o b

\* os.path.join(a, b) (posixpath)
os_path_join(a, b) ==
    IF Len(b) > 0 /\ b[1] = "/" THEN b
    ELSE IF Len(a) = 0 \/ a[Len(a)] = "/" THEN a \o b
    ELSE a \o <<"/">> \o b

\* path.split("/")
RECURSIVE split_slash(_, _, _)
split_slash(path, i, comp) ==
    IF i > Len(path) THEN <<comp>>
    ELSE IF path[i] = "/" THEN <<comp>> \o split_slash(path, i + 1, <<>>)
    ELSE split_slash(path, i + 1, Append(comp, path[i]))

\* posixpath.normpath's loop over the components
RECURSIVE norm_comps(_, _, _, _)
norm_comps(comps, i, new_comps, rooted) ==
    IF i > Len(comps) THEN new_comps
    ELSE LET comp == comps[i] IN
         IF comp = <<>> \/ comp = <<".">>
         THEN norm_comps(comps, i + 1, new_comps, rooted)
         ELSE IF comp # <<".", ".">>
                 \/ (~rooted /\ new_comps = <<>>)
                 \/ (new_comps # <<>> /\ new_comps[Len(new_comps)] = <<".", ".">>)
         THEN norm_comps(comps, i + 1, Append(new_comps, comp), rooted)
         ELSE IF new_comps # <<>>
         THEN norm_comps(comps, i + 1, SubSeq(new_comps, 1, Len(new_comps) - 1), rooted)
         ELSE norm_comps(comps, i + 1, new_comps, rooted)

RECURSIVE join_slash(_)
join_slash(comps) ==
    IF Len(comps) = 0 THEN <<>>
    ELSE IF Len(comps) = 1 THEN comps[1]
    ELSE comps[1] \o <<"/">> \o join_slash(Tail(comps))

\* os.path.normpath (posixpath)
normpath(path) ==
    IF Len(path) = 0 THEN <<".">>
    ELSE LET starts(k) == Len(path) >= k /\ \A j \in 1..k : path[j] = "/"
             initial_slashes == IF ~starts(1) THEN 0
                                ELSE IF starts(2) /\ ~starts(3) THEN 2
                                ELSE 1
             comps == norm_comps(split_slash(path, 1, <<>>), 1, <<>>,
                                 initial_slashes > 0)
             joined == Repeat("/", initial_slashes) \o join_slash(comps)
         IN  IF joined = <<>> THEN <<".">> ELSE joined

\* os.path.abspath (posixpath)
abspath(path) ==
    IF Len(path) > 0 /\ path[1] = "/" THEN normpath(path)
    ELSE normpath(os_path_join(Cwd, path))

\* os.path.basename (posixpath): what follows the last '/'
basename(path) ==
    LET slashes == {i \in 1..Len(path) : path[i] = "/"}
    IN  IF slashes = {} THEN path
        ELSE SubSeq(path, Max(slashes) + 1, Len(path))

\* the file or directory a path string names
Canon(path) == abspath(path)

isdir(path) == Canon(path) \in dirs

isfile(path) == Canon(path) \in DOMAIN tree

\* os.listdir(path)
listdir(path) == listing[Canon(path)]

InSeq(x, s) == \E i \in 1..Len(s) : s[i] = x

(***************************************************************************)
(* The loop of TVSeason.get_episodes over the directory listing: the       *)
(* episode files with their numbers, in listing order, or the error        *)
(* get_extension raised.  The conditions are evaluated left to right, as   *)
(* `and` does.                                                             *)
(***************************************************************************)
RECURSIVE scan_episodes_counting_all(_, _, _, _, _, _)
scan_episodes_counting_all(path, names, i, episode_number, ignore_files, ignore_ext) ==
    IF i > Len(names) THEN Ok(<<>>)
    ELSE LET file_name == names[i]
             file_path == os_path_join(path, file_name)
             candidate == /\ isfile(file_path)
                          /\ ~InSeq(file_name, ignore_files)
                          /\ ~InSeq(file_path, ignore_files)
             ext == get_extension(file_name)
             skip == scan_episodes_counting_all(path, names, i + 1, episode_number + 1,
                                                ignore_files, ignore_ext)
         IN  IF ~candidate THEN skip
             ELSE IF ~ext.ok THEN Raise("NoExtension")
             ELSE IF InSeq(ext.value, ignore_ext) THEN skip
             ELSE IF ~skip.ok THEN skip
             ELSE Ok(<<[file_name |-> file_name, file_path |-> file_path,
                        number |-> episode_number]>> \o skip.value)

RECURSIVE scan_episodes(_, _, _, _, _, _)
scan_episodes(path, names, i, episode_number, ignore_files, ignore_ext) ==
    IF i > Len(names) THEN Ok(<<>>)
    ELSE LET file_name == names[i]
             file_path == os_path_join(path, file_name)
             candidate == /\ isfile(file_path)
                          /\ ~InSeq(file_name, ignore_files)
                          /\ ~InSeq(file_path, ignore_files)
             ext == get_extension(file_name)
             skip == scan_episodes(path, names, i + 1, episode_number,
                                   ignore_files, ignore_ext)
             keep == scan_episodes(path, names, i + 1, episode_number + 1,
                                   ignore_files, ignore_ext)
         IN  IF ~candidate THEN skip
             ELSE IF ~ext.ok THEN Raise("NoExtension")
             ELSE IF InSeq(ext.value, ignore_ext) THEN skip
             ELSE IF ~keep.ok THEN keep
             ELSE Ok(<<[file_name |-> file_name, file_path |-> file_path,
                        number |-> episode_number]>> \o keep.value)

\* sorted(items, key=...) on the keys of the items: the indices of the
\* items in sorted order; the sort is stable (an insertion sort here)
RECURSIVE insert_by(_, _, _)
insert_by(order, idx, keys) ==
    IF order = <<>> THEN <<idx>>
    ELSE IF keys[order[Len(order)]] <= keys[idx] THEN Append(order, idx)
    ELSE Append(insert_by(SubSeq(order, 1, Len(order) - 1), idx, keys),
                order[Len(order)])

RECURSIVE sorted_prefix(_, _)
sorted_prefix(keys, n) ==
    IF n = 0 THEN <<>> ELSE insert_by(sorted_prefix(keys, n - 1), n, keys)

sorted_order_unsorted(keys) == [i \in 1..Len(keys) |-> i]

sorted_order(keys) == sorted_prefix(keys, Len(keys))

sorted(items, keys) == [i \in 1..Len(items) |-> items[sorted_order(keys)[i]]]

\* the first error among results, or "none"
RECURSIVE first_error(_)
first_error(results) ==
    IF results = <<>> THEN "none"
    ELSE IF ~results[1].ok THEN results[1].error
    ELSE first_error(Tail(results))

(***************************************************************************)
(* The classes TVShow, TVSeason and TVEpisode.                             *)
(***************************************************************************)
\* TVEpisode.__init__: self.season.show.episode_scheme.format(...), with the
\* scheme custom_text + "s{season}e{episode}.{extension}" of TVShow.__init__
TVEpisode_new_name(custom_text, season_number, number, extension, s_pad, e_pad) ==
    custom_text \o <<"s">> \o format_int(season_number, s_pad)
                \o <<"e">> \o format_int(number, e_pad)
                \o <<".">> \o extension

\* TVEpisode.__init__
TVEpisode(season_path, season_number, show, path, number) ==
    LET ext == get_extension(path)
        new_name == TVEpisode_new_name(show.episode_scheme, season_number, number,
                                       ext.value, show.season_padding,
                                       show.episode_padding)
    IN  IF ~ext.ok THEN Raise("NoExtension")
        ELSE Ok([number |-> number,
                 old_path |-> path,
                 old_name |-> basename(path),
                 new_name |-> new_name,
                 new_path |-> os_path_join(season_path, new_name)])

\* a list built from calls that may raise: the first exception, or the list
collect(results) ==
    IF first_error(results) # "none" THEN Raise(first_error(results))
    ELSE Ok([i \in 1..Len(results) |-> results[i].value])

\* lines 181-184: the TVEpisode of every file the loop keeps
TVSeason_episodes(found, season_path, season_number, show) ==
    IF ~found.ok THEN found
    ELSE collect([i \in 1..Len(found.value) |->
                     TVEpisode(season_path, season_number, show,
                               found.value[i].file_path, found.value[i].number)])

\* TVSeason.get_episodes
TVSeason_get_episodes(season_path, season_number, show) ==
    TVSeason_episodes(scan_episodes(season_path, listdir(season_path), 1, 1,
                                    show.ignore_files, show.ignore_ext),
                      season_path, season_number, show)

\* lines 112-116: the attributes of a TVSeason
TVSeason_self(path, name, number, episodes) ==
    IF ~episodes.ok THEN episodes
    ELSE Ok([path |-> path, name |-> name, number |-> number,
             episodes |-> episodes.value])

\* TVSeason.__init__
TVSeason(show, folder_path) ==
    LET path == normpath(folder_path)
        name == basename(path)
        number == get_season_number(name)
    IN  IF ~number.ok THEN number
        ELSE TVSeason_self(path, name, number.value,
                           TVSeason_get_episodes(path, number.value, show))

\* line 96: sorted(seasons, key=lambda season: season.number)
sorted_seasons(built) ==
    IF ~built.ok THEN built
    ELSE Ok(sorted(built.value, [i \in 1..Len(built.value) |-> built.value[i].number]))

\* TVShow.get_seasons
TVShow_get_seasons(show) ==
    LET names == listdir(show.path)
        kept == SelectSeq(names,
                    LAMBDA folder :
                        /\ isdir(os_path_join(show.path, folder))
                        /\ ~InSeq(folder, show.ignore_files)
                        /\ ~InSeq(os_path_join(show.path, folder), show.ignore_files))
    IN  sorted_seasons(collect([i \in 1..Len(kept) |->
                                   TVSeason(show, os_path_join(show.path, kept[i]))]))

\* lines 64-77: the attributes of a TVShow
TVShow_self(self, found) ==
    IF ~found.ok THEN found
    ELSE Ok([path |-> self.path,
             episode_scheme |-> self.episode_scheme,
             seasons |-> found.value])

\* TVShow.__init__
TVShow(path, custom_text, ignore_files, ignore_ext) ==
    LET stripped == remove_end_chars(custom_text, <<".">>)
        prefix == IF custom_text # <<>> THEN stripped.value \o <<".">> ELSE custom_text
        self == [path |-> abspath(path),
                 ignore_files |-> ignore_files,
                 ignore_ext |-> ignore_ext,
                 season_padding |-> <<"0", "2">>,
                 episode_padding |-> <<"0", "2">>,
                 episode_scheme |-> prefix]
    IN  IF custom_text # <<>> /\ ~stripped.ok THEN stripped
        ELSE TVShow_self(self, TVShow_get_seasons(self))

(***************************************************************************)
(* main: the helpers it calls and the values it computes.                  *)
(***************************************************************************)
\* get_season_number(folder), as main calls it (lines 297 and 301)
main_get_season_number(folder) == get_season_number(folder)

\* get_episodes(path, non_media), as main calls it (lines 309 and 348): the
\* names of the episode files of a season folder, in listing order
main_get_episodes(path, non_media) ==
    LET found == scan_episodes(path, listdir(path), 1, 1, args.ignore, non_media)
    IN  IF ~found.ok THEN found
        ELSE Ok([i \in 1..Len(found.value) |-> found.value[i].file_name])

\* lines 290-294: the season folders, in listing order
main_folders(path, ignore) ==
    SelectSeq(listdir(path),
              LAMBDA folder : isdir(fjoin(path, folder)) /\ ~InSeq(folder, ignore))

\* lines 306-307 and 310-311: the format spec for the largest of `counts`
padding_fixed(counts) == <<"0", "2">>

padding(counts) ==
    LET largest == Max({counts[i] : i \in 1..Len(counts)})
        max_digits == Len(str(largest))
    IN  IF max_digits > 2 THEN <<"0">> \o str(max_digits) ELSE <<"0", "2">>

\* lines 330 and 360-365: episode_scheme.format(...)
new_episode_name(scheme, num, episode_number, extension, s_pad, e_pad) ==
    scheme \o <<".", "S">> \o format_int(num, s_pad)
           \o <<"E">> \o format_int(episode_number, e_pad)
           \o <<".">> \o extension

\* lines 354-369: the renaming actions of one season, or the error raised
RECURSIVE season_actions(_, _, _, _, _, _)
season_actions(season, episodes, i, scheme, s_pad, e_pad) ==
    IF i > Len(episodes) THEN Ok(<<>>)
    ELSE LET episode_number == i
             old_episode_path == fjoin(season.path, episodes[i])
             ext == get_extension(old_episode_path)
             rest == season_actions(season, episodes, i + 1, scheme, s_pad, e_pad)
         IN  IF ~ext.ok THEN Raise("NoExtension")
             ELSE IF ~rest.ok THEN rest
             ELSE Ok(<<[old |-> old_episode_path,
                        new |-> fjoin(season.path,
                                      new_episode_name(scheme, season.num,
                                                       episode_number, ext.value,
                                                       s_pad, e_pad))]>>
                     \o rest.value)

RECURSIVE compile_actions_skip_empty(_, _)
compile_actions_skip_empty(ss, i) ==
    IF i > Len(ss) THEN Ok(<<>>)
    ELSE LET season == ss[i]
             episodes == main_get_episodes(season.path, args.non_media)
             found == IF episodes.ok THEN episodes.value ELSE <<>>
             acts == season_actions(season, found, 1, args.scheme,
                                    season_padding, episode_padding)
             rest == compile_actions_skip_empty(ss, i + 1)
         IN  IF ~acts.ok THEN acts
             ELSE IF ~rest.ok THEN rest
             ELSE Ok(<<[season EXCEPT !.actions = acts.value]>> \o rest.value)

\* lines 342-369: every season with its actions, or the first error raised
RECURSIVE compile_actions(_, _)
compile_actions(ss, i) ==
    IF i > Len(ss) THEN Ok(<<>>)
    ELSE LET season == ss[i]
             episodes == main_get_episodes(season.path, args.non_media)
         IN  IF ~episodes.ok THEN episodes
             ELSE IF episodes.value = <<>> THEN Raise("EmptySeason")
             ELSE LET acts == season_actions(season, episodes.value, 1, args.scheme,
                                             season_padding, episode_padding)
                      rest == compile_actions(ss, i + 1)
                  IN  IF ~acts.ok THEN acts
                      ELSE IF ~rest.ok THEN rest
                      ELSE Ok(<<[season EXCEPT !.actions = acts.value]>> \o rest.value)

\* lines 381-383: the actions in the order the two loops issue them
RECURSIVE flat_actions(_)
flat_actions(ss) ==
    IF ss = <<>> THEN <<>> ELSE ss[1].actions \o flat_actions(Tail(ss))

\* line 380
affirmative_any_case(r) == Len(r) > 0 /\ lower(r)[1] = "y"

affirmative(r) == lower(r) = <<"y", "e", "s">>

(***************************************************************************)
(* The show folders the model starts from.                                 *)
(***************************************************************************)
ShowRoot == <<"/", "w", "/", "t">>

FolderPool == { <<"S", "1">>, <<"S", "1", "0", "0">>, <<"1", "x", "2">>, <<"S", "x">> }

RootFilePool == { <<"n", ".", "t", "x", "t">> }

FilePool == { <<"a", ".", "m", "k", "v">>,
              <<"S", "h", ".", "S", "0", "1", "E", "0", "1", ".", "m", "k", "v">>,
              <<"i", ".", "n", "f", "o">>,
              <<"R">> }

SubdirPool == { <<"d">> }

PathPool == { <<"t", "/">> }

SchemePool == { <<"S", "h", ".">>, <<".">> }

IgnorePool == { <<>>, << <<"S", "x">>, <<"a", ".", "m", "k", "v">> >> }

NonMediaPool == { << <<"n", "f", "o">>, <<"t", "x", "t">> >> }

Responses == { <<"y", "e", "s">>, <<"Y", "E", "S">>, <<"y">>, <<"n", "o">>,
               <<"y", "e", "s", " ">>, <<>> }

\* the sequences of at most n distinct elements of S
DistinctSeqs(S, n) ==
    UNION { {q \in [1..k -> S] : \A i, j \in 1..k : i # j => q[i] # q[j]} : k \in 0..n }

Range(q) == {q[i] : i \in 1..Len(q)}

\* the listings of the season folders: sequences of distinct entries of the
\* pool, at most budget entries all together
RECURSIVE Contents(_, _, _)
Contents(folders, pool, budget) ==
    IF folders = {} THEN {<<>>}
    ELSE LET f == CHOOSE x \in folders : TRUE
         IN  UNION {{(f :> q) @@ rest :
                        rest \in Contents(folders \ {f}, pool, budget - Len(q))} :
                    q \in DistinctSeqs(pool, budget)}

\* a show folder of at most maxEntries entries, its own and those of its
\* season folders
TreeInit(subdirPool, maxEntries) ==
    \E root \in DistinctSeqs(FolderPool \cup RootFilePool, maxEntries) :
      LET folders == Range(root) \cap FolderPool IN
      \E content \in Contents(folders, FilePool \cup subdirPool, maxEntries - Len(root)) :
        LET seasonDir(f) == fjoin(ShowRoot, f)
            entries(f, pool) == {fjoin(seasonDir(f), n) : n \in Range(content[f]) \cap pool}
            files == {fjoin(ShowRoot, n) : n \in Range(root) \cap RootFilePool}
                     \cup UNION {entries(f, FilePool) : f \in folders}
            subdirs == UNION {entries(f, subdirPool) : f \in folders}
        IN  /\ dirs = {ShowRoot} \cup {seasonDir(f) : f \in folders} \cup subdirs
            /\ tree = [p \in files |-> p]
            /\ listing = [d \in {ShowRoot} \cup {seasonDir(f) : f \in folders} \cup subdirs |->
                            IF d = ShowRoot THEN root
                            ELSE IF d \in subdirs THEN <<>>
                            ELSE content[basename(d)]]

InitFS == TreeInit({}, MaxEntries)

NoCall == [fn |-> "none", args |-> <<>>, result |-> Ok(<<>>)]

NoShow == [built |-> FALSE, args |-> <<>>, result |-> Ok(<<>>)]

InitMain ==
    /\ args \in [path : PathPool, scheme : SchemePool, ignore : IgnorePool,
                 non_media : NonMediaPool, execute : BOOLEAN]
    /\ pc = "start"
    /\ seasons = <<>>
    /\ season_padding = <<>>
    /\ episode_padding = <<>>
    /\ episode_counts = <<>>
    /\ response = <<>>
    /\ log = <<>>
    /\ error = "none"

\* a scheme of dots only ends the run at line 287, before the show folder
\* is read: it is run on the empty show folder alone
Init ==
    /\ InitFS
    /\ InitMain
    /\ (\A i \in 1..Len(args.scheme) : args.scheme[i] = ".") => listing[ShowRoot] = <<>>
    /\ call = NoCall
    /\ tv_show = NoShow

Fail(e) ==
    /\ pc' = "error"
    /\ error' = e

(***************************************************************************)
(* main, step by step.                                                     *)
(***************************************************************************)
\* lines 279-287
Normalize ==
    /\ pc = "start"
    /\ LET path == remove_end_chars(args.path, <<"/">>)
           scheme == remove_end_chars(args.scheme, <<".">>)
       IN  \/ /\ path.ok /\ scheme.ok
              /\ args' = [args EXCEPT !.path = path.value, !.scheme = scheme.value]
              /\ pc' = "discover"
              /\ UNCHANGED error
           \/ /\ ~(path.ok /\ scheme.ok)
              /\ Fail(first_error(<<path, scheme>>))
              /\ UNCHANGED args
    /\ UNCHANGED <<fsVars, call, tv_show, seasons, season_padding, episode_padding,
                   episode_counts, response, log>>

\* lines 289-302
Discover ==
    /\ pc = "discover"
    /\ LET folders == main_folders(args.path, args.ignore)
           nums == [i \in 1..Len(folders) |-> main_get_season_number(folders[i])]
       IN  \/ /\ first_error(nums) = "none"
              /\ seasons' = sorted([i \in 1..Len(folders) |->
                                        [num |-> nums[i].value,
                                         name |-> folders[i],
                                         path |-> fjoin(args.path, folders[i]),
                                         actions |-> <<>>]],
                                    [i \in 1..Len(folders) |-> nums[i].value])
              /\ pc' = "padding"
              /\ UNCHANGED error
           \/ /\ first_error(nums) # "none"
              /\ Fail(first_error(nums))
              /\ UNCHANGED seasons
    /\ UNCHANGED <<fsVars, call, tv_show, args, season_padding, episode_padding,
                   episode_counts, response, log>>

\* lines 304-311
Padding ==
    /\ pc = "padding"
    /\ LET season_counts == [i \in 1..Len(seasons) |-> seasons[i].num]
           episodes == [i \in 1..Len(seasons) |->
                           main_get_episodes(seasons[i].path, args.non_media)]
       IN  \/ /\ seasons # <<>>
              /\ first_error(episodes) = "none"
              /\ season_padding' = padding(season_counts)
              /\ episode_counts' = [i \in 1..Len(seasons) |-> Len(episodes[i].value)]
              /\ episode_padding' = padding(episode_counts')
              /\ pc' = "plan"
              /\ UNCHANGED error
           \/ /\ seasons = <<>>
              /\ Fail("EmptyMax")
              /\ UNCHANGED <<season_padding, episode_padding, episode_counts>>
           \/ /\ seasons # <<>>
              /\ first_error(episodes) # "none"
              /\ Fail(first_error(episodes))
              /\ season_padding' = padding(season_counts)
              /\ UNCHANGED <<episode_padding, episode_counts>>
    /\ UNCHANGED <<fsVars, call, tv_show, args, seasons, response, log>>

\* lines 313-372
Plan ==
    /\ pc = "plan"
    /\ LET compiled == compile_actions(seasons, 1)
       IN  \/ /\ compiled.ok
              /\ seasons' = compiled.value
              /\ pc' = "confirm"
              /\ UNCHANGED error
           \/ /\ ~compiled.ok
              /\ Fail(compiled.error)
              /\ UNCHANGED seasons
    /\ UNCHANGED <<fsVars, call, tv_show, args, season_padding, episode_padding,
                   episode_counts, response, log>>

\* lines 374-380 and 385-386
Confirm ==
    /\ pc = "confirm"
    /\ \/ /\ ~args.execute
          /\ pc' = "done"
          /\ UNCHANGED <<response, error>>
       \/ /\ args.execute
          /\ \E r \in Responses :
               /\ response' = r
               /\ pc' = IF affirmative(r) THEN "renaming" ELSE "done"
          /\ UNCHANGED error
       \/ /\ args.execute
          /\ Fail("EOFError")
          /\ UNCHANGED response
    /\ UNCHANGED <<fsVars, call, tv_show, args, seasons, season_padding,
                   episode_padding, episode_counts, log>>

\* os.rename(old, new) succeeding: an existing file at new is replaced
renamed(t, old, new) ==
    IF old = new THEN t
    ELSE [p \in (DOMAIN t \ {old}) \cup {new} |-> IF p = new THEN t[old] ELSE t[p]]

\* lines 381-383: one os.rename call
Rename ==
    /\ pc = "renaming"
    /\ Len(log) < Len(flat_actions(seasons))
    /\ LET action == flat_actions(seasons)[Len(log) + 1]
           old == Canon(action.old)
           new == Canon(action.new)
       IN  \/ /\ old \in DOMAIN tree
              /\ new \notin dirs
              /\ tree' = renamed(tree, old, new)
              /\ log' = Append(log, [old |-> action.old, new |-> action.new, ok |-> TRUE])
              /\ UNCHANGED <<pc, error>>
           \/ /\ Fail("OSError")
              /\ log' = Append(log, [old |-> action.old, new |-> action.new, ok |-> FALSE])
              /\ UNCHANGED tree
    /\ UNCHANGED <<dirs, listing, call, tv_show, args, seasons, season_padding,
                   episode_padding, episode_counts, response>>

\* line 384
Finish ==
    /\ pc = "renaming"
    /\ Len(log) = Len(flat_actions(seasons))
    /\ pc' = "done"
    /\ UNCHANGED <<fsVars, call, tv_show, args, seasons, season_padding,
                   episode_padding, episode_counts, response, log, error>>

Next == Normalize \/ Discover \/ Padding \/ Plan \/ Confirm \/ Rename \/ Finish

Spec == Init /\ [][Next]_vars

(***************************************************************************)
(* SpecShow: a TVShow is constructed over a show folder.                   *)
(***************************************************************************)
ShowPathPool == { <<"t">>, <<"/", "w", "/", "t", "/">> }

CustomTextPool == { <<"S", "h", ".", ".">> }

IgnoreFilesPool == { <<>>,
                     << <<"S", "x">>,
                        <<"/", "w", "/", "t", "/", "S", "1", "/", "a", ".", "m", "k", "v">> >> }

IgnoreExtPool == { << <<"n", "f", "o">> >> }

IdleMain ==
    /\ args = [path |-> <<>>, scheme |-> <<>>, ignore |-> <<>>,
               non_media |-> <<>>, execute |-> FALSE]
    /\ pc = "idle"
    /\ seasons = <<>>
    /\ season_padding = <<>>
    /\ episode_padding = <<>>
    /\ episode_counts = <<>>
    /\ response = <<>>
    /\ log = <<>>
    /\ error = "none"

InitShow ==
    /\ TreeInit(SubdirPool, MaxEntries)
    /\ IdleMain
    /\ call = NoCall
    /\ tv_show = NoShow

Construct ==
    /\ ~tv_show.built
    /\ \E path \in ShowPathPool, custom_text \in CustomTextPool,
          ignore_files \in IgnoreFilesPool, ignore_ext \in IgnoreExtPool :
         tv_show' = [built |-> TRUE,
                     args |-> [path |-> path, custom_text |-> custom_text,
                               ignore_files |-> ignore_files, ignore_ext |-> ignore_ext],
                     result |-> TVShow(path, custom_text, ignore_files, ignore_ext)]
    /\ UNCHANGED <<fsVars, mainVars, call>>

NextShow == Construct

SpecShow == InitShow /\ [][NextShow]_vars

(***************************************************************************)
(* SpecFn: the module-level functions and main's computations, applied to  *)
(* every input within the bounds.                                          *)
(***************************************************************************)
Alphabet == {"S", "0", "1", ".", "/"}

Strings == UNION {[1..k -> Alphabet] : k \in 0..MaxLen}

CharPool == { <<".">>, <<"/">>, <<>>, <<".", ".">> }

RECURSIVE Pow10(_)
Pow10(k) == IF k = 0 THEN 1 ELSE 10 * Pow10(k - 1)

NumPool == {0, 1} \cup UNION {{Pow10(k) - 1, Pow10(k), Pow10(k) + 1} : k \in 1..MaxDigits}

PaddingPool == {<<"0">> \o str(w) : w \in 2..(MaxDigits + 1)}

ExtensionPool == { <<"m", "k", "v">>, <<"0", "1">> }

\* season numbers and episode counts on both sides of every change of width
CountPool == {0, 1} \cup UNION {{Pow10(k) - 1, Pow10(k)} : k \in 1..MaxDigits}

CountLists == UNION {[1..k -> CountPool] : k \in 1..MaxCounts}

InitFn ==
    /\ tree = <<>>
    /\ dirs = {}
    /\ listing = <<>>
    /\ IdleMain
    /\ call = NoCall
    /\ tv_show = NoShow

Call_get_extension ==
    /\ call.fn = "none"
    /\ \E filename \in Strings :
         call' = [fn |-> "get_extension", args |-> <<filename>>,
                  result |-> get_extension(filename)]
    /\ UNCHANGED <<fsVars, mainVars, tv_show>>

Call_remove_end_chars ==
    /\ call.fn = "none"
    /\ \E text \in Strings, char \in CharPool :
         call' = [fn |-> "remove_end_chars", args |-> <<text, char>>,
                  result |-> remove_end_chars(text, char)]
    /\ UNCHANGED <<fsVars, mainVars, tv_show>>

Call_get_season_number ==
    /\ call.fn = "none"
    /\ \E name \in Strings :
         call' = [fn |-> "get_season_number", args |-> <<name>>,
                  result |-> get_season_number(name)]
    /\ UNCHANGED <<fsVars, mainVars, tv_show>>

\* lines 304-311 of main on the season numbers and the episode counts of
\* the seasons of a show
Call_padding ==
    /\ call.fn = "none"
    /\ \E season_counts \in CountLists, counts \in CountLists :
         /\ Len(season_counts) = Len(counts)
         /\ call' = [fn |-> "padding", args |-> <<season_counts, counts>>,
                     result |-> Ok([season_padding |-> padding(season_counts),
                                    episode_padding |-> padding(counts)])]
    /\ UNCHANGED <<fsVars, mainVars, tv_show>>

\* lines 360-365 of main and TVEpisode.__init__ for two episodes, under one
\* scheme and padding
Call_new_episode_name ==
    /\ call.fn = "none"
    /\ \E a \in NumPool \X NumPool, b \in NumPool \X NumPool,
          extension \in ExtensionPool, s_pad \in PaddingPool, e_pad \in PaddingPool :
         LET scheme == <<"S", "h">> IN
         call' = [fn |-> "new_episode_name",
                  args |-> <<scheme, a, b, extension, s_pad, e_pad>>,
                  result |-> Ok(<<new_episode_name(scheme, a[1], a[2], extension,
                                                   s_pad, e_pad),
                                  new_episode_name(scheme, b[1], b[2], extension,
                                                   s_pad, e_pad),
                                  TVEpisode_new_name(scheme \o <<".">>, a[1], a[2],
                                                     extension, s_pad, e_pad),
                                  TVEpisode_new_name(scheme \o <<".">>, b[1], b[2],
                                                     extension, s_pad, e_pad)>>)]
    /\ UNCHANGED <<fsVars, mainVars, tv_show>>

NextFn ==
    \/ Call_get_extension
    \/ Call_remove_end_chars
    \/ Call_get_season_number
    \/ Call_padding
    \/ Call_new_episode_name

SpecFn == InitFn /\ [][NextFn]_vars

(***************************************************************************)
(* Properties.                                                             *)
(***************************************************************************)
\* the files of the show folder before the run: what the listings name,
\* the directories apart, each holding its own content
InitialFiles ==
    UNION {{fjoin(d, listing[d][i]) : i \in 1..Len(listing[d])} : d \in dirs} \ dirs

Tree0 == [p \in InitialFiles |-> p]

\* the positions where a maximal run of digits starts
RunStarts(name) ==
    {i \in 1..Len(name) : /\ name[i] \in DigitChars
                          /\ (i = 1 \/ name[i - 1] \notin DigitChars)}

\* the number the digits of name spell, read left to right
RECURSIVE DigitsValue(_, _, _)
DigitsValue(name, i, acc) ==
    IF i > Len(name) THEN acc
    ELSE IF name[i] \in DigitChars
         THEN DigitsValue(name, i + 1, 10 * acc + DigitVal(name[i]))
    ELSE DigitsValue(name, i + 1, acc)

\* C5: a folder name with exactly one run of digits yields the number the
\* run spells; with no run the "no numbers found" error; with several runs
\* the "multiple numbers found" error.
C5_SeasonNumber ==
    call.fn = "get_season_number" =>
        LET name == call.args[1]
            runs == Cardinality(RunStarts(name))
        IN  /\ runs = 1 => /\ call.result.ok
                           /\ call.result.value = DigitsValue(name, 1, 0)
            /\ runs = 0 => /\ ~call.result.ok
                           /\ call.result.error = "NoNumbersFound"
            /\ runs > 1 => /\ ~call.result.ok
                           /\ call.result.error = "MultipleNumbersFound"

C5_Witness ==
    /\ call.fn = "get_season_number"
    /\ call.args[1] = <<"S", "1", "0", "/">>
    /\ call.result.ok
    /\ call.result.value = 10

Dots(filename) == {i \in 1..Len(filename) : filename[i] = "."}

AfterLastDot(filename) == SubSeq(filename, Max(Dots(filename)) + 1, Len(filename))

\* C6 as stated: a filename with a '.' yields what follows its last '.'; a
\* filename without a '.' fails.
C6_Original ==
    call.fn = "get_extension" =>
        LET filename == call.args[1]
        IN  /\ Dots(filename) # {} => /\ call.result.ok
                                      /\ call.result.value = AfterLastDot(filename)
            /\ Dots(filename) = {} => ~call.result.ok

\* C6, amended: a filename with a '.' that does not end in '.' yields what
\* follows its last '.'; a filename without a '.', or ending in '.', fails
\* with the no-extension error.
C6_Extension ==
    call.fn = "get_extension" =>
        LET filename == call.args[1]
            n == Len(filename)
        IN  /\ (Dots(filename) # {} /\ filename[n] # ".") =>
                   /\ call.result.ok
                   /\ call.result.value = AfterLastDot(filename)
                   /\ call.result.value # <<>>
            /\ (Dots(filename) = {} \/ filename[n] = ".") =>
                   /\ ~call.result.ok
                   /\ call.result.error = "ValueError"

C6_Witness ==
    /\ call.fn = "get_extension"
    /\ call.args[1] = <<"S", ".", "0", ".", "1">>
    /\ call.result.ok
    /\ call.result.value = <<"1">>

EndsWith(text, c) == Len(text) > 0 /\ text[Len(text)] = c

\* C9: stripping the trailing '.' of a prefix succeeds for any prefix, leaves
\* no trailing '.', is idempotent, and gives the same result whatever the
\* number of trailing dots.
C9_Normalization ==
    (call.fn = "remove_end_chars" /\ call.args[2] = <<".">>) =>
        LET text == call.args[1]
        IN  /\ call.result.ok
            /\ ~EndsWith(call.result.value, ".")
            /\ remove_end_chars(call.result.value, <<".">>) = call.result
            /\ \A k \in 1..2 :
                  remove_end_chars(text \o Repeat(".", k), <<".">>) = call.result

Digits(n) == Min({k \in 1..(MaxDigits + 2) : n < Pow10(k)})

WidthFor(counts) ==
    LET largest == Max({counts[i] : i \in 1..Len(counts)})
    IN  IF Digits(largest) > 2 THEN Digits(largest) ELSE 2

C8_Injective ==
    call.fn = "new_episode_name" =>
        (call.args[2] # call.args[3] =>
            /\ call.result.value[1] # call.result.value[2]
            /\ call.result.value[3] # call.result.value[4])

C8_Witness ==
    /\ call.fn = "new_episode_name"
    /\ call.args[2] = <<1, 11>>
    /\ call.args[3] = <<11, 1>>
    /\ call.args[5] = <<"0", "2">>
    /\ call.result.value[1] = <<"S", "h", ".", "S", "0", "1", "E", "1", "1", ".", "m", "k", "v">>
    /\ call.result.value[2] = <<"S", "h", ".", "S", "1", "1", "E", "0", "1", ".", "m", "k", "v">>

\* the season folders main retains: the directories the show folder lists,
\* those on the ignore list apart
Retained ==
    {f \in Range(listing[ShowRoot]) :
        fjoin(ShowRoot, f) \in dirs /\ ~InSeq(f, args.ignore)}

\* the entry at position j of a season folder is an episode file
Eligible(d, j, ignore_files, ignore_ext) ==
    LET name == listing[d][j]
    IN  /\ fjoin(d, name) \in InitialFiles
        /\ ~InSeq(name, ignore_files)
        /\ ~InSeq(fjoin(d, name), ignore_files)
        /\ Dots(name) # {}
        /\ name[Len(name)] # "."
        /\ ~InSeq(AfterLastDot(name), ignore_ext)

\* the entry at position j of a season folder is a file that is not ignored
\* and has no extension to extract
NoExtensionAt(d, j, ignore_files) ==
    LET name == listing[d][j]
    IN  /\ fjoin(d, name) \in InitialFiles
        /\ ~InSeq(name, ignore_files)
        /\ ~InSeq(fjoin(d, name), ignore_files)
        /\ (Dots(name) = {} \/ name[Len(name)] = ".")

WellFormed(f) ==
    LET d == fjoin(ShowRoot, f)
    IN  /\ Cardinality(RunStarts(f)) = 1
        /\ \E j \in 1..Len(listing[d]) : Eligible(d, j, args.ignore, args.non_media)
        /\ \A j \in 1..Len(listing[d]) : ~NoExtensionAt(d, j, args.ignore)

YesInAnyCase(r) ==
    /\ Len(r) = 3
    /\ r[1] \in {"y", "Y"}
    /\ r[2] \in {"e", "E"}
    /\ r[3] \in {"s", "S"}

\* C1: a rename is issued, and the tree differs from the tree before the
\* run, only if the execute flag was given and the line read at the prompt
\* is "yes" in some casing.
C1_OnlyConfirmed ==
    (log # <<>> \/ tree # Tree0 \/ pc = "renaming") =>
        (args.execute /\ YesInAnyCase(response))

C1_Witness ==
    /\ pc = "done"
    /\ args.execute
    /\ response = <<"Y", "E", "S">>
    /\ Len(log) = 2
    /\ tree # Tree0

\* C2: when one retained season folder is not well formed (its name has no
\* or several runs of digits, it holds no episode file, or it holds a file
\* that is not ignored and has no extension), the run ends with an error
\* before any rename is issued: no file of any season is renamed.
C2_WholeRunValidation ==
    (pc # "idle" /\ \E f \in Retained : ~WellFormed(f)) =>
        /\ pc \in {"start", "discover", "padding", "plan", "error"}
        /\ log = <<>>
        /\ tree = Tree0

C2_Witness ==
    /\ pc = "error"
    /\ error = "EmptySeason"
    /\ log = <<>>
    /\ Cardinality(Retained) = 2
    /\ \E f \in Retained : WellFormed(f)
    /\ \E f \in Retained : ~WellFormed(f)

\* the season folder and the position in its listing of a source path
PlaceOf(path) ==
    CHOOSE place \in {<<f, j>> : f \in Retained, j \in 1..MaxEntries} :
        /\ place[2] <= Len(listing[fjoin(ShowRoot, place[1])])
        /\ Canon(path) = fjoin(fjoin(ShowRoot, place[1]),
                               listing[fjoin(ShowRoot, place[1])][place[2]])

\* the position of a season folder in the listing of the show folder
RootIndex(f) == CHOOSE i \in 1..Len(listing[ShowRoot]) : listing[ShowRoot][i] = f

\* source a comes before source b: by season number, then (for one number)
\* by the order the show folder lists the folders, then by the order the
\* season folder lists the files
Before(a, b) ==
    LET pa == PlaceOf(a)
        pb == PlaceOf(b)
        na == DigitsValue(pa[1], 1, 0)
        nb == DigitsValue(pb[1], 1, 0)
    IN  \/ na < nb
        \/ na = nb /\ RootIndex(pa[1]) < RootIndex(pb[1])
        \/ pa[1] = pb[1] /\ pa[2] < pb[2]

\* the tree after the successful renames of the log, in order
RECURSIVE Replay(_, _, _)
Replay(t, entries, i) ==
    IF i > Len(entries) THEN t
    ELSE IF ~entries[i].ok THEN Replay(t, entries, i + 1)
    ELSE LET old == Canon(entries[i].old)
             new == Canon(entries[i].new)
             moved == [p \in (DOMAIN t \ {old}) \cup {new} |->
                          IF p = new THEN t[old] ELSE t[p]]
         IN  Replay(IF old = new THEN t ELSE moved, entries, i + 1)

\* the sources of the episode files of the retained folders, all of them
Sources ==
    UNION {{fjoin(fjoin(ShowRoot, f), listing[fjoin(ShowRoot, f)][j]) :
               j \in {k \in 1..Len(listing[fjoin(ShowRoot, f)]) :
                         Eligible(fjoin(ShowRoot, f), k, args.ignore, args.non_media)}} :
           f \in Retained}

\* C3: the renames are issued one at a time in plan order (by season
\* number, then in listing order), none skipped; a failed rename is the
\* last one issued and ends the run, and the renames before it stay
\* applied.
C3_SequentialNoRollback ==
    log # <<>> =>
        /\ \A i, j \in 1..Len(log) : i < j => Before(log[i].old, log[j].old)
        /\ \A j \in 1..Len(log) :
              \A src \in Sources :
                 (src # Canon(log[j].old) /\ Before(src, log[j].old)) =>
                    \E i \in 1..(j - 1) : Canon(log[i].old) = src
        /\ \A i \in 1..Len(log) : ~log[i].ok => (i = Len(log) /\ pc = "error")
        /\ (pc = "done") => Len(log) = Cardinality(Sources)
        /\ tree = Replay(Tree0, log, 1)

C3_Witness ==
    /\ pc = "error"
    /\ Len(log) = 2
    /\ log[1].ok
    /\ ~log[2].ok
    /\ Cardinality(Sources) = 3
    /\ tree # Tree0
    /\ PlaceOf(log[1].old)[1] = <<"S", "1">>
    /\ listing[ShowRoot][1] = <<"S", "1", "0", "0">>

\* C10: when a rename is issued its destination is its own source or a path
\* where no file exists, so a run whose renames all succeed leaves in each
\* season folder as many files as before.
C10_NoFileLost ==
    /\ (pc = "renaming" /\ Len(log) < Len(flat_actions(seasons))) =>
          LET action == flat_actions(seasons)[Len(log) + 1]
          IN  \/ Canon(action.new) = Canon(action.old)
              \/ Canon(action.new) \notin DOMAIN tree
    /\ (pc = "done" /\ log # <<>>) =>
          \A f \in Retained :
             Cardinality({p \in DOMAIN tree :
                             Len(p) > Len(fjoin(ShowRoot, f))
                             /\ SubSeq(p, 1, Len(fjoin(ShowRoot, f)) + 1)
                                = fjoin(ShowRoot, f) \o <<"/">>})
             = Cardinality({p \in InitialFiles :
                             Len(p) > Len(fjoin(ShowRoot, f))
                             /\ SubSeq(p, 1, Len(fjoin(ShowRoot, f)) + 1)
                                = fjoin(ShowRoot, f) \o <<"/">>})

\* C4: the episodes of every season are the eligible entries of its folder
\* (regular files, not ignored by name or by path, their extension not
\* ignored), in listing order, numbered 1, 2, ..., n: an excluded entry
\* consumes no number.
C4_Numbering ==
    (tv_show.built /\ tv_show.result.ok) =>
        \A s \in 1..Len(tv_show.result.value.seasons) :
           LET season == tv_show.result.value.seasons[s]
               d == season.path
               kept == {j \in 1..Len(listing[d]) :
                           Eligible(d, j, tv_show.args.ignore_files,
                                    tv_show.args.ignore_ext)}
           IN  /\ Len(season.episodes) = Cardinality(kept)
               /\ \A k \in 1..Len(season.episodes) :
                     /\ season.episodes[k].number = k
                     /\ \E j \in kept :
                           /\ season.episodes[k].old_name = listing[d][j]
                           /\ season.episodes[k].old_path = fjoin(d, listing[d][j])
                           /\ Cardinality({i \in kept : i < j}) = k - 1

C4_Witness ==
    /\ tv_show.built
    /\ tv_show.result.ok
    /\ \E s \in 1..Len(tv_show.result.value.seasons) :
          LET season == tv_show.result.value.seasons[s]
          IN  /\ Len(listing[season.path]) = 3
              /\ Len(season.episodes) = 2
              /\ season.episodes[1].old_name = listing[season.path][2]
              /\ season.episodes[2].number = 2

====
